---- MODULE Spec2Model ----
(***************************************************************************)
(* Model of loader_hub/zotero/base.py: ZoteroItemReader.                   *)
(*                                                                         *)
(* The reader is sequential.  Every requests.get is one step of the model: *)
(* the remote service answers each request with a status, a body and link  *)
(* relations chosen nondeterministically, and the reader's code runs from  *)
(* that response up to the next request (or to its return / raise).        *)
(* `log` is the transport's record of the requests of the current call.    *)
(***************************************************************************)
EXTENDS Integers, Sequences, FiniteSets, TLC

\* ---------------------------------------------------------------- bounds
MaxPages == 2      \* longest pagination chain the service serves
MaxItems == 3      \* most items the service lists over one whole chain
MaxUrls  == 2      \* longest item_urls list a caller passes to load_data

\* ------------------------------------------------------ program constants
USER_ID_NAME     == "ZOTERO_USER_ID"
PRIVATE_KEY_NAME == "ZOTERO_PRIVATE_KEY"
BASE_URL         == "https://api.zotero.org"
PageSize         == 100

None == "<None>"

\* ------------------------------------------------------------ input sets
Hrefs       == {"A1", "A2"}
Texts       == {"text1", "text2"}
Statuses    == {200, 404}
ArgUserIds  == {None, "12345"}
ArgKeys     == {None, "secret"}
EnvUserIds  == {None, "12345"}
EnvKeys     == {None, "secret"}
Collections == {None, "C1"}
Queries     == {<<"G", "P", "T">>, <<"a", " ">>}

SeqUpTo(S, n) == UNION {[1..k -> S] : k \in 0..n}

\* arguments of load_data: any list of up to MaxUrls hrefs without a
\* collection, and the empty or a one-href list together with a collection
LoadArgs ==
    {<<urls, None>> : urls \in SeqUpTo(Hrefs, MaxUrls)}
    \cup {<<urls, c>> : urls \in SeqUpTo(Hrefs, 1), c \in Collections \ {None}}

\* An Item of a listing body: a mapping of link relations to hrefs.
ItemWith(h) == [links |-> [self |-> [href |-> "item"], attachment |-> [href |-> h]]]
ItemWithout == [links |-> [self |-> [href |-> "item"]]]
Items       == {ItemWith(h) : h \in Hrefs} \cup {ItemWithout}

NoLinks == <<>>

VARIABLES
    environ,    \* os.environ: the two credential variables
    self,       \* the reader object: user_id, private_key, headers
    call,       \* the public method being executed and its arguments
    pc,         \* position of the executing method
    next_url,   \* the URL of the pending request (start_url / next_url)
    res,        \* the most recent response
    items,      \* query_urls: accumulated items
    item_urls,  \* search: collected hrefs; load_data: resolved references
    docs,       \* load_data: documents built so far
    result,     \* value returned to the caller
    exc,        \* exception raised to the caller
    log         \* requests issued during the current call, with responses

vars == <<environ, self, call, pc, next_url, res, items, item_urls, docs, result, exc, log>>

\* ------------------------------------------------------- pure operators

\* os.getenv(name)
Getenv(name) == environ[name]

\* variant: the environment variable always wins over the argument
ResolveCredential_EnvOnly(arg, name) == Getenv(name)

\* `if x is None: x = os.getenv(NAME)`
ResolveCredential(arg, name) == IF arg = None THEN Getenv(name) ELSE arg

\* self.headers
Headers(private_key) ==
    [Authorization |-> <<"Bearer ", private_key>>, ZoteroAPIVersion |-> "3"]

\* headers of the full-text request
ReadHeaders(headers) ==
    [Authorization |-> headers.Authorization,
     ZoteroAPIVersion |-> headers.ZoteroAPIVersion,
     ContentType |-> "application/json"]

\* A URL: path segments and the query string embedded in it.
Url(path, query) == [path |-> path, query |-> query]

\* variant: the collection listing is addressed even without a collection
StartUrl_AlwaysCollection(user_id, collection_id) ==
    Url(<<BASE_URL, "users", user_id, "collections", collection_id, "items">>, <<>>)

\* start_url of query_urls
StartUrl(user_id, collection_id) ==
    IF collection_id # None
    THEN Url(<<BASE_URL, "users", user_id, "collections", collection_id, "items">>, <<>>)
    ELSE Url(<<BASE_URL, "users", user_id, "items">>, <<>>)

\* text_url of _read_item
TextUrl(item_url) == Url(<<item_url, "fulltext">>, <<>>)

\* urllib.parse.quote on a string of characters
SafeChars == {"G", "P", "T", "a"}
QuoteChar(c) == IF c \in SafeChars THEN <<c>> ELSE <<"%", "2", "0">>
RECURSIVE Quote(_)
Quote(s) == IF s = <<>> THEN <<>> ELSE QuoteChar(Head(s)) \o Quote(Tail(s))

\* the URL search builds on its first iteration
SearchUrl(user_id, query) ==
    Url(<<BASE_URL, "users", user_id, "items">>, << <<"q", Quote(query)>> >>)

\* variant: the status is never checked
RaiseForStatus_Never(status) == FALSE

\* variant: only server errors raise
RaiseForStatus_ServerOnly(status) == status >= 500 /\ status < 600

\* res.raise_for_status() raises HTTPError
RaiseForStatus(status) == status >= 400 /\ status < 600

\* variant: the cursor is never seen
HasNext_Never(links) == FALSE

\* `"next" in res.links`
HasNext(links) == "next" \in DOMAIN links

\* variant: hrefs collected newest first
RECURSIVE AttachmentUrls_Reversed(_)
AttachmentUrls_Reversed(its) ==
    IF its = <<>> THEN <<>>
    ELSE AttachmentUrls_Reversed(Tail(its))
         \o (IF "attachment" \in DOMAIN Head(its).links
             THEN <<Head(its).links.attachment.href>> ELSE <<>>)

\* the list comprehension that ends query_urls, and the loop body of search
RECURSIVE AttachmentUrls(_)
AttachmentUrls(its) ==
    IF its = <<>> THEN <<>>
    ELSE (IF "attachment" \in DOMAIN Head(its).links
          THEN <<Head(its).links.attachment.href>> ELSE <<>>)
         \o AttachmentUrls(Tail(its))

\* variant: search leaves the loop only when there is no cursor
SearchExits_FollowCursor(links) == "next" \notin DOMAIN links

\* both branches after the first iteration of search leave the loop
SearchExits(links) == IF ~HasNext(links) THEN TRUE ELSE TRUE

\* variant: supplied item_urls are never used as they are
ResolveBranch_NoExplicit(urls, collection_id) ==
    IF collection_id # None THEN "collection" ELSE "library"

\* variant: supplied item_urls take priority over collection_id
ResolveBranch_UrlsFirst(urls, collection_id) ==
    IF Len(urls) # 0 THEN "explicit"
    ELSE IF collection_id # None THEN "collection"
    ELSE "library"

\* how load_data resolves its references
ResolveBranch(urls, collection_id) ==
    IF collection_id # None THEN "collection"
    ELSE IF Len(urls) = 0 THEN "library"
    ELSE "explicit"

\* variant: the text is stored as the item_key
Document_KeyIsText(item_text, item_url) ==
    [text |-> item_text, extra_info |-> [item_key |-> item_text]]

\* Document(item_text, extra_info={"item_key": item_url})
Document(item_text, item_url) == [text |-> item_text, extra_info |-> [item_key |-> item_url]]

\* ------------------------------------------------ the remote service

\* page number a listing URL asks for
PageOf(url) ==
    IF \E i \in 1..Len(url.query) : url.query[i][1] = "start"
    THEN (CHOOSE n \in 1..(MaxPages + 1) :
            \E i \in 1..Len(url.query) : url.query[i] = <<"start", n>>)
    ELSE 1

\* the cursor a listing response links as "next"
Cursor(url) ==
    Url(url.path,
        SelectSeq(url.query, LAMBDA p : p[1] # "start") \o << <<"start", PageOf(url) + 1>> >>)

\* responses to a listing request when at most `budget` more items exist
ListingResponses(url, budget) ==
    {[status |-> 200, links |-> l, is_json |-> TRUE, body |-> b] :
        l \in {NoLinks} \cup (IF PageOf(url) < MaxPages
                              THEN {[next |-> [url |-> Cursor(url)]]} ELSE {}),
        b \in SeqUpTo(Items, budget)}
    \cup
    {[status |-> s, links |-> NoLinks, is_json |-> j,
      body |-> IF j THEN <<ItemWith("A1")>> ELSE <<>>] :
        s \in {t \in Statuses : t # 200}, j \in BOOLEAN}

\* responses to a full-text request
FulltextResponses ==
    {[status |-> 200, links |-> NoLinks, is_json |-> TRUE, body |-> [content |-> t]] :
        t \in Texts}
    \cup
    {[status |-> s, links |-> NoLinks, is_json |-> j,
      body |-> [content |-> IF j THEN "text1" ELSE ""]] :
        s \in {t \in Statuses : t # 200}, j \in BOOLEAN}

Entry(url, params, headers, response) ==
    [url |-> url, params |-> params, headers |-> headers, response |-> response]

\* ------------------------------------------------------------ the state

NoCall == [name |-> "none", user_id |-> None, private_key |-> None,
           collection_id |-> None, item_urls |-> <<>>, query |-> <<>>]
NoUrl  == Url(<<>>, <<>>)
NoRes  == [status |-> 0, links |-> NoLinks, is_json |-> FALSE, body |-> <<>>]
Unconstructed == [user_id |-> None, private_key |-> None, headers |-> Headers(None)]

Constructed == self.user_id # None
Callable    == pc = "idle"

Init ==
    /\ \E u \in EnvUserIds, k \in EnvKeys :
           environ = (USER_ID_NAME :> u) @@ (PRIVATE_KEY_NAME :> k)
    /\ self = Unconstructed
    /\ call = NoCall
    /\ pc = "idle"
    /\ next_url = NoUrl
    /\ res = NoRes
    /\ items = <<>>
    /\ item_urls = <<>>
    /\ docs = <<>>
    /\ result = <<>>
    /\ exc = None
    /\ log = <<>>

\* entering any public method: fresh locals, empty request record
Enter(c) ==
    /\ call' = c
    /\ res' = NoRes
    /\ items' = <<>>
    /\ docs' = <<>>
    /\ log' = <<>>

\* ZoteroItemReader.__init__
Construct ==
    \E user_id \in ArgUserIds, private_key \in ArgKeys :
        /\ Callable
        /\ ~Constructed
        /\ Enter([NoCall EXCEPT !.name = "__init__", !.user_id = user_id,
                                !.private_key = private_key])
        /\ next_url' = NoUrl
        /\ item_urls' = <<>>
        /\ result' = <<>>
        /\ LET uid == ResolveCredential(user_id, USER_ID_NAME)
               key == ResolveCredential(private_key, PRIVATE_KEY_NAME)
           IN  IF uid = None \/ key = None
               THEN /\ pc' = "raised"
                    /\ exc' = "ValueError"
                    /\ self' = self
               ELSE /\ pc' = "returned"
                    /\ exc' = None
                    /\ self' = [user_id |-> uid, private_key |-> key, headers |-> Headers(key)]
        /\ UNCHANGED environ

\* the caller receives an exception
Raise(e) ==
    /\ pc' = "raised"
    /\ exc' = e
    /\ result' = <<>>

\* the caller receives a value
Return(v) ==
    /\ pc' = "returned"
    /\ exc' = None
    /\ result' = v

\* load_data once item_urls is resolved: the for loop over item_urls
StartReading(urls) ==
    /\ item_urls' = urls
    /\ IF urls = <<>>
       THEN Return(docs)
       ELSE /\ pc' = "read_item"
            /\ exc' = None
            /\ result' = <<>>

\* a call of query_urls(collection_id) by the user
CallQueryUrls ==
    \E collection_id \in Collections :
        /\ Callable
        /\ Constructed
        /\ Enter([NoCall EXCEPT !.name = "query_urls", !.collection_id = collection_id])
        /\ next_url' = StartUrl(self.user_id, collection_id)
        /\ pc' = "query_start"
        /\ item_urls' = <<>>
        /\ result' = <<>>
        /\ exc' = None
        /\ UNCHANGED <<environ, self>>

\* one requests.get of query_urls and the code that follows it
QueryStep(params) ==
    \E r \in ListingResponses(next_url, MaxItems - Len(items)) :
        /\ log' = Append(log, Entry(next_url, params, self.headers, r))
        /\ res' = r
        /\ IF RaiseForStatus(r.status)
           THEN /\ Raise("HTTPError")
                /\ UNCHANGED <<items, item_urls, next_url>>
           ELSE IF ~r.is_json
           THEN /\ Raise("JSONDecodeError")
                /\ UNCHANGED <<items, item_urls, next_url>>
           ELSE /\ items' = items \o r.body
                /\ IF HasNext(r.links)
                   THEN /\ next_url' = r.links.next.url
                        /\ pc' = "query_next"
                        /\ UNCHANGED <<item_urls, result, exc>>
                   ELSE /\ next_url' = next_url
                        /\ IF call.name = "query_urls"
                           THEN /\ Return(AttachmentUrls(items'))
                                /\ item_urls' = AttachmentUrls(items')
                           ELSE StartReading(AttachmentUrls(items'))
        /\ UNCHANGED <<environ, self, call, docs>>

\* query_urls: the initial listing request, with query_dict as parameters
QueryStart ==
    /\ pc = "query_start"
    /\ QueryStep([page_size |-> PageSize])

\* query_urls: one iteration of `while "next" in res.links`
QueryNext ==
    /\ pc = "query_next"
    /\ QueryStep(<<>>)

\* a call of search(query) by the user
CallSearch ==
    \E query \in Queries :
        /\ Callable
        /\ Constructed
        /\ Enter([NoCall EXCEPT !.name = "search", !.query = query])
        /\ next_url' = NoUrl
        /\ pc' = "search_get"
        /\ item_urls' = <<>>
        /\ result' = <<>>
        /\ exc' = None
        /\ UNCHANGED <<environ, self>>

\* requests.get accepts only something that reads as a URL
IsUrl(u) == "path" \in DOMAIN u

\* one iteration of `while not done` in search
SearchGet ==
    /\ pc = "search_get"
    /\ LET url == IF next_url = NoUrl THEN SearchUrl(self.user_id, call.query) ELSE next_url
       IN  IF ~IsUrl(url)
           THEN /\ Raise("MissingSchema")
                /\ UNCHANGED <<log, res, item_urls, next_url>>
           ELSE \E r \in ListingResponses(url, MaxItems) :
                /\ log' = Append(log, Entry(url, <<>>, self.headers, r))
                /\ res' = r
                /\ IF ~r.is_json
                   THEN /\ Raise("JSONDecodeError")
                        /\ next_url' = url
                        /\ UNCHANGED item_urls
                   ELSE /\ item_urls' = item_urls \o AttachmentUrls(r.body)
                        /\ next_url' = IF HasNext(r.links) THEN r.links.next ELSE url
                        /\ IF SearchExits(r.links)
                           THEN Return(item_urls')
                           ELSE UNCHANGED <<pc, result, exc>>
    /\ UNCHANGED <<environ, self, call, items, docs>>

\* a call of load_data(item_urls, collection_id) by the user
CallLoadData ==
    \E args \in LoadArgs :
        /\ Callable
        /\ Constructed
        /\ Enter([NoCall EXCEPT !.name = "load_data", !.item_urls = args[1],
                                !.collection_id = args[2]])
        /\ LET urls == args[1]
               collection_id == args[2]
               branch == ResolveBranch(urls, collection_id)
           IN  IF branch = "explicit"
               THEN /\ next_url' = NoUrl
                    /\ StartReading(urls)
               ELSE /\ next_url' = StartUrl(self.user_id,
                                            IF branch = "collection" THEN collection_id ELSE None)
                    /\ pc' = "query_start"
                    /\ item_urls' = urls
                    /\ result' = <<>>
                    /\ exc' = None
        /\ UNCHANGED <<environ, self>>

\* load_data: one iteration of `for item_url in item_urls`, i.e. _read_item
ReadItem ==
    /\ pc = "read_item"
    /\ \E r \in FulltextResponses :
        LET item_url == item_urls[Len(docs) + 1]
        IN  /\ log' = Append(log, Entry(TextUrl(item_url), <<>>, ReadHeaders(self.headers), r))
            /\ res' = r
            /\ IF RaiseForStatus(r.status)
               THEN /\ Raise("HTTPError")
                    /\ UNCHANGED docs
               ELSE IF ~r.is_json
               THEN /\ Raise("JSONDecodeError")
                    /\ UNCHANGED docs
               ELSE /\ docs' = Append(docs, Document(r.body.content, item_url))
                    /\ IF Len(docs') = Len(item_urls)
                       THEN Return(docs')
                       ELSE UNCHANGED <<pc, result, exc>>
    /\ UNCHANGED <<environ, self, call, next_url, items, item_urls>>

\* the caller has received the value or the exception: the frame is gone
Collect ==
    /\ pc \in {"returned", "raised"}
    /\ pc' = "idle"
    /\ call' = NoCall
    /\ next_url' = NoUrl
    /\ res' = NoRes
    /\ items' = <<>>
    /\ item_urls' = <<>>
    /\ docs' = <<>>
    /\ result' = <<>>
    /\ exc' = None
    /\ log' = <<>>
    /\ UNCHANGED <<environ, self>>

Next ==
    \/ Collect
    \/ Construct
    \/ CallQueryUrls
    \/ QueryStart
    \/ QueryNext
    \/ CallSearch
    \/ SearchGet
    \/ CallLoadData
    \/ ReadItem

Spec == Init /\ [][Next]_vars

\* =============================================================== claims

\* what the request record says, read without the reader's own operators
IsListing(e)  == e.url.path[Len(e.url.path)] = "items"
IsFulltext(e) == e.url.path[Len(e.url.path)] = "fulltext"
Failed(e)     == e.response.status \notin 200..299
Linked(e)     == "next" \in DOMAIN e.response.links
Listings      == SelectSeq(log, IsListing)
Fulltexts     == SelectSeq(log, IsFulltext)
Finished      == pc \in {"returned", "raised"}

LibraryListing == Url(<<BASE_URL, "users", self.user_id, "items">>, <<>>)
CollectionListing(c) == Url(<<BASE_URL, "users", self.user_id, "collections", c, "items">>, <<>>)
ListingOf(c) == IF c = None THEN LibraryListing ELSE CollectionListing(c)

RECURSIVE AllItems(_)
AllItems(l) == IF l = <<>> THEN <<>> ELSE Head(l).response.body \o AllItems(Tail(l))

HrefsOf(its) ==
    LET att == SelectSeq(its, LAMBDA it : "attachment" \in DOMAIN it.links)
    IN  [i \in 1..Len(att) |-> att[i].links.attachment.href]

AllOk(l) == \A i \in 1..Len(l) : ~Failed(l[i])

\* C1: in query_urls, as long as every page succeeds, the first request is
\* the listing request and each later request goes to the cursor of the page
\* before it; the call goes on exactly while the last page carries a "next"
\* cursor, and on the first page without one it returns, after as many
\* requests as pages, the attachment hrefs of all pages in page order and
\* within-page order, items without an attachment link left out.
C1_Pagination ==
    (call.name = "query_urls" /\ log # <<>> /\ AllOk(log)) =>
        LET N == Len(log)
        IN  /\ log[1].url = ListingOf(call.collection_id)
            /\ \A i \in 1..(N - 1) :
                   Linked(log[i]) /\ log[i + 1].url = log[i].response.links.next.url
            /\ IF Linked(log[N])
               THEN pc = "query_next"
               ELSE pc = "returned" /\ result = HrefsOf(AllItems(log))

C1_Witness ==
    /\ call.name = "query_urls"
    /\ pc = "returned"
    /\ Len(log) = 2
    /\ Len(AllItems(log)) = 3
    /\ result = <<"A2", "A1">>

\* C2: search issues exactly one request per call; after a successful first
\* response it returns at once, with or without a "next" cursor, the
\* attachment hrefs of that page's items in page order.
C2_SearchOneRequest ==
    (call.name = "search") =>
        /\ Len(log) <= 1
        /\ Finished => Len(log) = 1
        /\ (log # <<>> /\ ~Failed(log[1])) =>
               pc = "returned" /\ result = HrefsOf(log[1].response.body)

C2_Witness ==
    /\ call.name = "search"
    /\ pc = "returned"
    /\ Len(log) = 1
    /\ Linked(log[1])
    /\ result = <<"A2", "A1">>

\* C3: load_data with a non-empty item_urls and no collection_id issues only
\* full-text requests, the i-th one for the i-th supplied URL, and has issued
\* one per supplied URL when it returns.
C3_ExplicitUrls ==
    (call.name = "load_data" /\ call.item_urls # <<>> /\ call.collection_id = None) =>
        /\ Len(log) <= Len(call.item_urls)
        /\ \A i \in 1..Len(log) : log[i].url = Url(<<call.item_urls[i], "fulltext">>, <<>>)
        /\ pc = "returned" => Len(log) = Len(call.item_urls)

C3_Witness ==
    /\ call.name = "load_data"
    /\ call.item_urls = <<"A2", "A1">>
    /\ call.collection_id = None
    /\ pc = "returned"
    /\ Len(log) = 2

\* the references load_data has to materialize, read off its arguments and
\* the listing responses
Resolved ==
    IF call.collection_id = None /\ call.item_urls # <<>>
    THEN call.item_urls
    ELSE HrefsOf(AllItems(Listings))

\* C4: when load_data returns, it returns one Document per resolved
\* reference, in resolution order; the i-th Document holds the text of the
\* i-th full-text response and the i-th reference as item_key.
C4_Documents ==
    (call.name = "load_data" /\ pc = "returned") =>
        /\ Len(result) = Len(Resolved)
        /\ Len(Fulltexts) = Len(Resolved)
        /\ \A i \in 1..Len(result) :
               result[i] = [text |-> Fulltexts[i].response.body.content,
                            extra_info |-> [item_key |-> Resolved[i]]]

C4_Witness ==
    /\ call.name = "load_data"
    /\ call.collection_id = "C1"
    /\ pc = "returned"
    /\ Len(result) = 2
    /\ result[1].text = "text2"
    /\ result[2].text = "text1"
    /\ result[1].extra_info.item_key = "A2"

\* C5: load_data with a collection_id sends its first request to that
\* collection's item listing and requests the full text of exactly the
\* references the listing returned, in order, whatever item_urls was passed.
C5_CollectionWins ==
    (call.name = "load_data" /\ call.collection_id # None /\ log # <<>>) =>
        /\ log[1].url = CollectionListing(call.collection_id)
        /\ \A i \in 1..Len(Listings) : Listings[i].url.path = CollectionListing(call.collection_id).path
        /\ Len(Fulltexts) <= Len(HrefsOf(AllItems(Listings)))
        /\ \A i \in 1..Len(Fulltexts) :
               Fulltexts[i].url = Url(<<HrefsOf(AllItems(Listings))[i], "fulltext">>, <<>>)
        /\ pc = "returned" => Len(result) = Len(HrefsOf(AllItems(Listings)))

C5_Witness ==
    /\ call.name = "load_data"
    /\ call.collection_id = "C1"
    /\ call.item_urls = <<"A2">>
    /\ pc = "returned"
    /\ Len(result) = 1
    /\ result[1].extra_info.item_key = "A1"

\* C6: load_data with empty item_urls and no collection_id sends every
\* listing request to the library-wide listing, and sends a full-text request
\* only after a listing page without a "next" cursor has arrived: all listing
\* requests come before all full-text requests.
C6_LibraryFirst ==
    (call.name = "load_data" /\ call.collection_id = None /\ call.item_urls = <<>>
        /\ log # <<>>) =>
        /\ log[1].url = LibraryListing
        /\ \A i \in 1..Len(Listings) : Listings[i].url.path = LibraryListing.path
        /\ log = Listings \o Fulltexts
        /\ Fulltexts # <<>> => ~Linked(Listings[Len(Listings)])

C6_Witness ==
    /\ call.name = "load_data"
    /\ call.collection_id = None
    /\ call.item_urls = <<>>
    /\ pc = "returned"
    /\ Len(Listings) = 2
    /\ Len(Fulltexts) = 2

\* C7: in load_data a full-text request answered with a non-success status
\* is the last request of the call, and the call ends with an HTTPError and
\* no returned value.
C7_ReadFailureAborts ==
    (call.name = "load_data") =>
        \A k \in 1..Len(log) :
            (IsFulltext(log[k]) /\ Failed(log[k])) =>
                /\ k = Len(log)
                /\ pc = "raised"
                /\ exc = "HTTPError"
                /\ result = <<>>

C7_Witness ==
    /\ call.name = "load_data"
    /\ pc = "raised"
    /\ Len(item_urls) = 3
    /\ Len(docs) = 1
    /\ Len(Fulltexts) = 2
    /\ Failed(log[Len(log)])

\* C8: in query_urls, called directly or by load_data, a listing request
\* answered with a non-success status is the last request of the call, and
\* the call ends with an HTTPError and no returned value.
C8_ListingFailureAborts ==
    (call.name \in {"query_urls", "load_data"}) =>
        \A k \in 1..Len(log) :
            (IsListing(log[k]) /\ Failed(log[k])) =>
                /\ k = Len(log)
                /\ pc = "raised"
                /\ exc = "HTTPError"
                /\ result = <<>>

C8_Witness ==
    /\ call.name = "query_urls"
    /\ pc = "raised"
    /\ Len(log) = 2
    /\ Failed(log[2])
    /\ items # <<>>

\* C9: the constructor raises ValueError exactly when the user id or the
\* private key comes from neither its argument nor its environment variable,
\* otherwise it yields a reader; either way no request has been issued.
C9_Construction ==
    (call.name = "__init__" /\ Finished) =>
        LET missing == \/ (call.user_id = None /\ environ[USER_ID_NAME] = None)
                       \/ (call.private_key = None /\ environ[PRIVATE_KEY_NAME] = None)
        IN  /\ log = <<>>
            /\ IF missing
               THEN pc = "raised" /\ exc = "ValueError" /\ ~Constructed
               ELSE pc = "returned" /\ Constructed

C9_Witness ==
    /\ call.name = "__init__"
    /\ pc = "raised"
    /\ call.user_id # None
    /\ environ[USER_ID_NAME] = None
    /\ call.private_key = None
    /\ environ[PRIVATE_KEY_NAME] = None

\* C10: a non-success status on the request of search aborts search with an
\* HTTPError.
C10_SearchFailureAborts ==
    (call.name = "search" /\ log # <<>> /\ Failed(log[1])) =>
        pc = "raised" /\ exc = "HTTPError"
====
